---- MODULE Spec2Model ----
(***************************************************************************)
(* Falling-objects game (main.ts): the Game state machine, its frame       *)
(* callbacks (requestAnimationFrame / cancelAnimationFrame), the level     *)
(* schedule and the field of falling objects.                              *)
(*                                                                         *)
(* Time is in milliseconds, lengths in pixels.  Numbers the code draws     *)
(* from Math.random() are drawn from small sample sets that lie inside     *)
(* the code's ranges.  A difficulty is held in hundredths (0.7 is 70).     *)
(***************************************************************************)
EXTENDS Integers, Sequences, FiniteSets, TLC

\* ---------------------------------------------------------------- bounds
\* number of levels resetLevels builds (the code builds 100)
NumLevels == 2
\* duration of every level in ms (the code passes 25000)
LevelDuration == 1600
\* the last instant a frame is delivered at
MaxClock == 10000
\* user events that start another callback chain wait while this many
\* callbacks are pending
MaxCallbacks == 3
\* a probed falling object is moved until it is below this height
MaxProbeY == 720
\* generateLevel is applied on its own when it builds no more objects than this
MaxLevelObjects == 6
\* ms of frames a level needs from its start until its last object has fallen
FramesAhead == 5000
\* SimpleGame: Date.now() up to this, and gameLoop callbacks requested at once
SimpleMaxClock == 3000
MaxSimpleCallbacks == 2

\* ------------------------------------------------------- program constants
\* the field takes the canvas's width and height; the page gives the canvas
FieldWidth == 800
FieldHeight == 600
PlayerWidth == 110
PlayerHeight == 18
PlayerBottomGap == 12
MoveSpeed == 420
DeadMargin == 100
LevelPassedMs == 5000
SpawnTail == 500
FireworksInterval == 200
LevelCount == 100
FireworksWindow == 16

\* ----------------------------------------------------------- input samples
\* time between two display frames
FrameDeltas == {2500}
\* ms to the first frame after the page was hidden: no callback runs meanwhile
HiddenDeltas == {5000}
\* Math.random() samples of generateLevel
StartTimeSamples == {0, 1000}
XSamples == {100}
StartYSamples == {0 - 100}
SpeedSamples == {200}
SizeSamples == {40}
\* canvas positions a pointer event can report (this one lies left of the field)
PointerPoints == {<<0 - 20, 400>>}
KeyNames == {"left"}

VARIABLES
  now,                  \* performance.now()
  status,               \* Game.status
  isLevelPassed,        \* Game.isLevelPassed
  currentLevelIndex,    \* Game.currentLevelIndex (0-based)
  nextLevelObjectIndex, \* Game.nextLevelObjectIndex, the spawn cursor (0-based)
  levelStartTime,       \* Game.levelStartTime
  lastFrameTime,        \* Game.lastFrameTime
  levelPassedStartTime, \* Game.levelPassedStartTime
  levels,               \* Game.levels
  gameObjects,          \* Game.field.gameObjects
  player,               \* Game.player.location
  keys,                 \* leftPressed / rightPressed / upPressed / downPressed
  gameOverHidden,       \* gameOverOverlay has class "hidden"
  levelPassedHidden,    \* levelPassedOverlay has class "hidden"
  pending,              \* animation frame callbacks requested for the next frame
  frameQueue,           \* callbacks of the frame being delivered, not yet run
  step,                 \* what the most recent simulation step did
  frameSteps,           \* simulation steps run by callbacks of the current frame
  finishedCalls,        \* handleLevelFinished calls since the level was (re)started
  startLog,             \* what the most recent start() left behind
  advanceLog,           \* what a Next Level click during the celebration led to
  spawns,               \* per LevelObject of this level run: times instantiated
  changes,              \* what the last handler changed, and which handler
  lastStepAt,           \* timestamp of the most recent simulation step
  pausedMs,             \* time spent PAUSED since the most recent simulation step
  advanced,             \* advanceToNextLevel took effect since that step
  observe,              \* the observations a specification keeps
  audioOk,              \* the page can create an AudioContext
  probe,                \* a function applied on its own: its input and its result
  simple                \* the page of SimpleGame: the game, its timer, its frames

vars == <<now, status, isLevelPassed, currentLevelIndex, nextLevelObjectIndex,
          levelStartTime, lastFrameTime, levelPassedStartTime, levels,
          gameObjects, player, keys, gameOverHidden, levelPassedHidden,
          pending, frameQueue, step, frameSteps, finishedCalls, startLog,
          advanceLog, spawns, changes,
          lastStepAt, pausedMs, advanced, observe, audioOk, probe, simple>>

\* the program's own state
program == <<status, isLevelPassed, currentLevelIndex, nextLevelObjectIndex,
             levelStartTime, lastFrameTime, levelPassedStartTime, levels,
             gameObjects, player, keys, gameOverHidden, levelPassedHidden,
             pending, frameQueue>>

\* ---------------------------------------------------------------- helpers
RECURSIVE SelectAlive(_)
SelectAlive(s) ==
  IF s = <<>> THEN <<>>
  ELSE IF Head(s).isAlive THEN <<Head(s)>> \o SelectAlive(Tail(s))
       ELSE SelectAlive(Tail(s))

\* ----------------------------------------------------------------- geometry
boundsIntersectClosed(a, b) ==
  /\ a.x <= b.x + b.width
  /\ a.x + a.width >= b.x
  /\ a.y <= b.y + b.height
  /\ a.y + a.height >= b.y

boundsIntersectOneSided(a, b) ==
  /\ a.x < b.x + b.width
  /\ a.y < b.y + b.height

boundsIntersect(a, b) ==
  /\ a.x < b.x + b.width
  /\ a.x + a.width > b.x
  /\ a.y < b.y + b.height
  /\ a.y + a.height > b.y

\* Every falling variant answers a box of side `size` centred on its location
\* (circle, star and diamond are built with size/2 and answer 2 * that).
ObjectBounds(o) ==
  [x |-> o.x - o.size \div 2, y |-> o.y - o.size \div 2,
   width |-> o.size, height |-> o.size]

PlayerBounds(p) ==
  [x |-> p.x - PlayerWidth \div 2, y |-> p.y - PlayerHeight \div 2,
   width |-> PlayerWidth, height |-> PlayerHeight]

hasCollision(o, p) == boundsIntersect(ObjectBounds(o), PlayerBounds(p))

\* ------------------------------------------------------------ falling object
ObjectMoveAtMargin(o, deltaMs) ==
  LET y1 == o.y + (o.speed * deltaMs) \div 1000
  IN [o EXCEPT !.y = y1,
               !.isAlive = IF y1 - DeadMargin >= FieldHeight THEN FALSE ELSE @]

\* BaseFallingObject.move: integrate, then mark dead below the margin
ObjectMove(o, deltaMs) ==
  LET y1 == o.y + (o.speed * deltaMs) \div 1000
  IN [o EXCEPT !.y = y1,
               !.isAlive = IF y1 - DeadMargin > FieldHeight THEN FALSE ELSE @]

\* GameField.removeDead
removeDead(objs) == SelectAlive(objs)

\* ------------------------------------------------------------------- player
\* moveLeft / moveRight / moveUp / moveDown for the keys held
PlayerKeys(p, held, deltaMs) ==
  LET d == (MoveSpeed * deltaMs) \div 1000
      x1 == IF "left" \in held THEN p.x - d ELSE p.x
      x2 == IF "right" \in held THEN x1 + d ELSE x1
      y1 == IF "up" \in held THEN p.y - d ELSE p.y
      y2 == IF "down" \in held THEN y1 + d ELSE y1
  IN [x |-> x2, y |-> y2]

PlayerMoveLeftOnly(p, width, height, fieldWidth, fieldHeight) ==
  LET x1 == IF p.x < width \div 2 THEN width \div 2 ELSE p.x
      y1 == IF p.y < height \div 2 THEN height \div 2 ELSE p.y
      y2 == IF y1 > fieldHeight - height \div 2
            THEN fieldHeight - height \div 2 ELSE y1
  IN [x |-> x1, y |-> y2]

\* Player.move for a paddle width x height in a field fieldWidth x
\* fieldHeight: the clamp, four successive ifs
PlayerMoveIn(p, width, height, fieldWidth, fieldHeight) ==
  LET x1 == IF p.x < width \div 2 THEN width \div 2 ELSE p.x
      x2 == IF x1 > fieldWidth - width \div 2
            THEN fieldWidth - width \div 2 ELSE x1
      y1 == IF p.y < height \div 2 THEN height \div 2 ELSE p.y
      y2 == IF y1 > fieldHeight - height \div 2
            THEN fieldHeight - height \div 2 ELSE y1
  IN [x |-> x2, y |-> y2]

\* Player.move of the game's paddle in the game's field
PlayerMove(p) ==
  PlayerMoveIn(p, PlayerWidth, PlayerHeight, FieldWidth, FieldHeight)

\* ---------------------------------------------------------- level generator
\* Math.floor(seconds * difficulty * 1.5), difficulty in hundredths
objectsCountRounded(durationMs, difficulty) ==
  (durationMs * difficulty * 15 + 500000) \div 1000000

objectsCount(durationMs, difficulty) ==
  (durationMs * difficulty * 15) \div 1000000

\* randomBetween(min, max) can return u: Math.random() is in [0, 1), so the
\* result is in [min, max), is min when max = min, and is in (max, min] when
\* max < min
randomBetween(u, min, max) ==
  IF max > min THEN min <= u /\ u < max ELSE max < u /\ u <= min

\* what one pass of the generator loop can draw
LevelObjectSamples(durationMs, difficulty) ==
  { [startTime |-> t, x |-> x, y |-> y, speed |-> s, size |-> z] :
      t \in {u \in StartTimeSamples : randomBetween(u, 0, durationMs - SpawnTail)},
      x \in {u \in XSamples : 40 <= u /\ u < FieldWidth - 40},
      y \in {u \in StartYSamples : 0 - 200 <= u /\ u < 0 - 40},
      s \in {u \in SpeedSamples : /\ 100 * u >= 8000 + 30 * difficulty
                                  /\ 100 * u < 19000 + 60 * difficulty},
      z \in {u \in SizeSamples : 28 <= u /\ u < 48} }

\* levelObjects.sort((a, b) => a.startTime - b.startTime): stable insertion
RECURSIVE InsertByStartTime(_, _)
InsertByStartTime(s, e) ==
  IF s = <<>> THEN <<e>>
  ELSE IF e.startTime < Head(s).startTime THEN <<e>> \o s
       ELSE <<Head(s)>> \o InsertByStartTime(Tail(s), e)

PushOrder(s) == s

RECURSIVE SortByStartTime(_)
SortByStartTime(s) ==
  IF s = <<>> THEN <<>>
  ELSE InsertByStartTime(SortByStartTime(SubSeq(s, 1, Len(s) - 1)), s[Len(s)])

\* the levels generateLevel can return
generateLevel(durationMs, difficulty) ==
  LET n == objectsCount(durationMs, difficulty)
  IN { [difficulty |-> difficulty, duration |-> durationMs,
        levelObjects |-> SortByStartTime(draw)] :
          draw \in [1..n -> LevelObjectSamples(durationMs, difficulty)] }

\* difficulty of level i (0-based) in resetLevels
BaseDifficulties == <<70, 85, 90, 95, 100>>
LevelDifficulty(i) == BaseDifficulties[(i % 5) + 1] + (i \div 5) * 15

\* the level lists resetLevels can build: levels 0 .. n-1, pushed in order
RECURSIVE LevelLists(_)
LevelLists(n) ==
  IF n = 0 THEN {<<>>}
  ELSE { Append(ls, lv) : ls \in LevelLists(n - 1),
                          lv \in generateLevel(LevelDuration, LevelDifficulty(n - 1)) }

\* the programs of 1 .. NumLevels + 1 levels
Programs == [n \in 1..(NumLevels + 1) |-> LevelLists(n)]

\* resetLevels builds the same number of levels every time it runs
resetLevels == Programs[Len(levels)]

\* LevelObject.createGameObject
createGameObject(lo) ==
  [x |-> lo.x, y |-> lo.y, speed |-> lo.speed, size |-> lo.size, isAlive |-> TRUE]

\* ------------------------------------------------- animation frame callbacks
\* A callback entry is [fn, current]: fn names the callback, current says that
\* Game.animationFrameId holds its handle.  A handle is unique, so at most one
\* entry is current; none is when the handle's callback has already run (or
\* animationFrameId is still 0).

Unmark(q) == [i \in DOMAIN q |-> [q[i] EXCEPT !.current = FALSE]]

RECURSIVE DropCurrent(_)
DropCurrent(q) ==
  IF q = <<>> THEN <<>>
  ELSE IF Head(q).current THEN DropCurrent(Tail(q))
       ELSE <<Head(q)>> \o DropCurrent(Tail(q))

\* this.animationFrameId = requestAnimationFrame(fn)
requestAnimationFrame(g, fn) ==
  [g EXCEPT !.pending = Append(Unmark(@), [fn |-> fn, current |-> TRUE]),
            !.frameQueue = Unmark(@)]

\* cancelAnimationFrame(this.animationFrameId)
cancelAnimationFrame(g) ==
  [g EXCEPT !.pending = DropCurrent(@), !.frameQueue = DropCurrent(@)]

\* no simulation step ran
NoStep == [ran |-> FALSE, by |-> "loop", deltaMs |-> 0, sincePrev |-> 0,
           pausedBefore |-> 0, advancedBefore |-> FALSE, elapsedMs |-> 0, duration |-> 0,
           overlaps |-> 0, hits |-> 0, fieldAtCheck |-> 0, finished |-> FALSE,
           statusAfter |-> "IDLE", offsets |-> <<>>, cursorAfter |-> 0,
           spawnsAfter |-> <<>>, spawnedBefore |-> <<>>, spawnedChecked |-> <<>>,
           playerChecked |-> [x |-> 0, y |-> 0], fieldMoved |-> 0,
           aliveOverlapsAfter |-> 0]

\* no start() took effect yet
NoStart == [ran |-> FALSE, quiet |-> TRUE, index |-> 0, cursor |-> 0,
            field |-> <<>>, flag |-> FALSE, status |-> "IDLE"]

\* what a specification keeps of a simulation step: its outcome, or its timing
ObserveOutcome == {"ran", "elapsedMs", "duration", "overlaps", "hits",
                   "fieldAtCheck", "finished", "statusAfter"}
ObserveTiming == {"ran", "by", "deltaMs", "sincePrev", "pausedBefore",
                  "advancedBefore"}
ObserveAdvance == {"ran", "finished", "advance"}
ObserveStart == {"startLog"}
ObserveFrames == {"frameSteps"}
ObserveChanges == {"changes"}
\* the level clock of a step, and which handler moved levelStartTime
ObservePause == {"fresh", "ran", "by", "sincePrev", "pausedBefore", "elapsedMs",
                 "duration", "offsets", "cursorAfter", "changes", "anchor"}

\* the last handler lowered no cursor, moved no level index, changed no field
NoChanges == [cursor |-> "none", index |-> "none", indexFrom |-> 0,
              field |-> "none", lastLevel |-> "none", anchor |-> "none"]
\* "fresh": the record of a step is kept until the next handler runs
ObserveStep == {"fresh", "ran", "deltaMs", "elapsedMs", "duration", "hits",
                "fieldAtCheck", "finished", "offsets", "cursorAfter", "spawns",
                "spawnsAfter", "spawnedBefore", "spawnedChecked",
                "playerChecked", "fieldMoved", "aliveOverlapsAfter"}

NoAdvance == [manual |-> FALSE, exact |-> TRUE, again |-> FALSE]

\* --------------------------------------------------------------- game state
G == [status |-> status, isLevelPassed |-> isLevelPassed,
      currentLevelIndex |-> currentLevelIndex,
      nextLevelObjectIndex |-> nextLevelObjectIndex,
      levelStartTime |-> levelStartTime, lastFrameTime |-> lastFrameTime,
      levelPassedStartTime |-> levelPassedStartTime, levels |-> levels,
      gameObjects |-> gameObjects, player |-> player, keys |-> keys,
      gameOverHidden |-> gameOverHidden, levelPassedHidden |-> levelPassedHidden,
      pending |-> pending, frameQueue |-> frameQueue,
      step |-> step, finishedCalls |-> finishedCalls,
      lastStepAt |-> lastStepAt, pausedMs |-> pausedMs,
      advanced |-> advanced, audioOk |-> audioOk, spawns |-> spawns,
      stepped |-> FALSE, op |-> "none"]

\* a field of the step record is computed only where it is observed
Seen(f, v) == IF f \in observe THEN v ELSE NoStep[f]

\* the fields of Game and of its field and player, and the callbacks requested
GameFields(g) ==
  <<g.status, g.isLevelPassed, g.currentLevelIndex, g.nextLevelObjectIndex,
    g.levelStartTime, g.lastFrameTime, g.levelPassedStartTime, g.levels,
    g.gameObjects, g.player, g.keys, g.gameOverHidden, g.levelPassedHidden,
    g.pending>>

Commit(g) ==
  /\ status' = g.status
  /\ isLevelPassed' = g.isLevelPassed
  /\ currentLevelIndex' = g.currentLevelIndex
  /\ nextLevelObjectIndex' = g.nextLevelObjectIndex
  /\ levelStartTime' = g.levelStartTime
  /\ lastFrameTime' = g.lastFrameTime
  /\ levelPassedStartTime' = g.levelPassedStartTime
  /\ levels' = g.levels
  /\ gameObjects' = g.gameObjects
  /\ player' = g.player
  /\ keys' = g.keys
  /\ gameOverHidden' = g.gameOverHidden
  /\ levelPassedHidden' = g.levelPassedHidden
  /\ pending' = g.pending
  /\ frameQueue' = g.frameQueue
  /\ finishedCalls' = g.finishedCalls
  /\ step' = IF "fresh" \in observe /\ ~g.stepped THEN NoStep
             ELSE [f \in DOMAIN g.step |->
                     IF f \in observe THEN g.step[f] ELSE NoStep[f]]
  /\ lastStepAt' = IF "sincePrev" \in observe THEN g.lastStepAt ELSE 0
  /\ pausedMs' = IF "pausedBefore" \in observe THEN g.pausedMs ELSE 0
  /\ advanced' = IF "advancedBefore" \in observe THEN g.advanced ELSE FALSE
  /\ spawns' = IF "spawns" \in observe THEN g.spawns ELSE <<>>
  /\ changes' =
       IF "changes" \notin observe THEN NoChanges
       ELSE [cursor |-> IF g.nextLevelObjectIndex < nextLevelObjectIndex
                        THEN g.op ELSE "none",
             index |-> IF g.currentLevelIndex # currentLevelIndex
                       THEN g.op ELSE "none",
             indexFrom |-> IF g.currentLevelIndex # currentLevelIndex
                           THEN currentLevelIndex ELSE 0,
             field |-> IF g.gameObjects # gameObjects THEN g.op ELSE "none",
             lastLevel |->
               IF g.op = "advanceToNextLevel"
                    /\ currentLevelIndex = Len(levels) - 1
               THEN (IF GameFields(g) = GameFields(G) THEN "same" ELSE "changed")
               ELSE "none",
             anchor |-> IF "anchor" \in observe
                             /\ g.levelStartTime # levelStartTime
                        THEN g.op ELSE "none"]
  /\ observe' = observe
  /\ audioOk' = audioOk
  /\ probe' = probe
  /\ simple' = simple

\* ------------------------------------------------------------ Game handlers
\* no LevelObject of the level instantiated yet
NoSpawns(level) == [i \in DOMAIN level.levelObjects |-> 0]

\* the LevelObjects cursor + 1 .. cursor1 instantiated once more
CountSpawns(counts, cursor, cursor1) ==
  [i \in DOMAIN counts |->
     IF cursor < i /\ i <= cursor1 THEN counts[i] + 1 ELSE counts[i]]

\* AudioManager.ensureAudioContext throws: with no AudioContext to construct,
\* initAudio and every play...Sound call throw, and nothing catches them
AudioThrows(g) == ~g.audioOk

\* handlePlayerHit
handlePlayerHit(g) ==
  [g EXCEPT !.status = "STOPPED", !.gameOverHidden = FALSE]

\* advanceToNextLevel that goes from the last level back to the first
advanceToNextLevelWraps(g, t) ==
  requestAnimationFrame(
    [g EXCEPT !.isLevelPassed = FALSE,
              !.currentLevelIndex = (@ + 1) % Len(g.levels),
              !.levelPassedHidden = TRUE,
              !.gameObjects = <<>>,
              !.levelStartTime = t,
              !.lastFrameTime = t,
              !.nextLevelObjectIndex = 0,
              !.spawns =
                NoSpawns(g.levels[((g.currentLevelIndex + 1) % Len(g.levels)) + 1]),
              !.finishedCalls = 0,
              !.advanced = TRUE,
              !.op = "advanceToNextLevel",
              !.status = "RUNNING"],
    "loop")

\* advanceToNextLevel
advanceToNextLevel(g, t) ==
  IF g.currentLevelIndex < Len(g.levels) - 1
  THEN requestAnimationFrame(
         [g EXCEPT !.isLevelPassed = FALSE,
                   !.currentLevelIndex = @ + 1,
                   !.levelPassedHidden = TRUE,
                   !.gameObjects = <<>>,
                   !.levelStartTime = t,
                   !.lastFrameTime = t,
                   !.nextLevelObjectIndex = 0,
                   !.spawns = NoSpawns(g.levels[g.currentLevelIndex + 2]),
                   !.finishedCalls = 0,
                   !.advanced = TRUE,
                   !.op = "advanceToNextLevel",
                   !.status = "RUNNING"],
         "loop")
  ELSE [g EXCEPT !.op = "advanceToNextLevel"]

\* handleLevelFinished that leaves the status alone on a level that is not the last
LevelFinishedStatusKeepsRunning(isLast) == IF isLast THEN "FINISHED" ELSE "RUNNING"

\* status handleLevelFinished leaves behind
LevelFinishedStatus(isLast) == IF isLast THEN "FINISHED" ELSE "STOPPED"

\* handleLevelFinished
handleLevelFinished(g, t) ==
  LET isLast == ~(g.currentLevelIndex < Len(g.levels) - 1)
      g0 == [g EXCEPT !.status = "STOPPED",
                      !.isLevelPassed = TRUE,
                      !.levelPassedStartTime = t,
                      !.finishedCalls = @ + 1]
      g1 == [g0 EXCEPT !.status = LevelFinishedStatus(isLast),
                       !.levelPassedHidden = FALSE]
  IN IF AudioThrows(g) THEN g0
     ELSE IF isLast THEN g1
     ELSE requestAnimationFrame(g1, "levelPassedLoop")

\* levelPassedLoop
levelPassedLoop(g, timestamp, t) ==
  LET elapsedMs == timestamp - g.levelPassedStartTime
      g0 == [g EXCEPT !.op = "levelPassedLoop"]
  IN IF elapsedMs % FireworksInterval < FireworksWindow /\ AudioThrows(g) THEN g0
     ELSE IF elapsedMs < LevelPassedMs
     THEN requestAnimationFrame(g0, "levelPassedLoop")
     ELSE advanceToNextLevel(g, t)

\* the forEach of Game.loop: every object of the field moves
MoveNone(objs, deltaMs) == objs

MoveAll(objs, deltaMs) == [i \in DOMAIN objs |-> ObjectMove(objs[i], deltaMs)]

\* a dispatch that instantiates at most one LevelObject per step
DispatchOne(los, cursor, elapsedMs) ==
  IF cursor < Len(los) /\ los[cursor + 1].startTime <= elapsedMs
  THEN cursor + 1
  ELSE cursor

\* a dispatch that instantiates nothing
DispatchNothing(los, cursor, elapsedMs) == cursor

\* the while loop of Game.loop: the cursor after dispatching what is due
RECURSIVE Dispatch(_, _, _)
Dispatch(los, cursor, elapsedMs) ==
  IF cursor < Len(los) /\ los[cursor + 1].startTime <= elapsedMs
  THEN Dispatch(los, cursor + 1, elapsedMs)
  ELSE cursor

\* the collision scan without its break: one call per colliding object
RECURSIVE CollisionScanNoBreak(_, _, _)
CollisionScanNoBreak(objs, p, i) ==
  IF i > Len(objs) THEN 0
  ELSE (IF hasCollision(objs[i], p) THEN 1 ELSE 0) + CollisionScanNoBreak(objs, p, i + 1)

\* the for ... of loop of Game.loop: calls of handlePlayerHit when the scan
\* starts at objs[i]; the break leaves at the first collision
RECURSIVE CollisionScan(_, _, _)
CollisionScan(objs, p, i) ==
  IF i > Len(objs) THEN 0
  ELSE IF hasCollision(objs[i], p) THEN 1
       ELSE CollisionScan(objs, p, i + 1)

\* the completion test without the empty-field condition
LevelCompleteIgnoresField(elapsedMs, duration, fieldLength) ==
  elapsedMs >= duration

\* the level-completion test of Game.loop
LevelComplete(elapsedMs, duration, fieldLength) ==
  elapsedMs >= duration /\ fieldLength = 0

\* Game.loop(timestamp); t is performance.now()
loop(g, timestamp, t) ==
  IF g.status # "RUNNING" THEN cancelAnimationFrame([g EXCEPT !.op = "loop"])
  ELSE
    LET deltaMs == timestamp - g.lastFrameTime
        level == g.levels[g.currentLevelIndex + 1]
        elapsedMs == timestamp - g.levelStartTime
        cursor == Dispatch(level.levelObjects, g.nextLevelObjectIndex, elapsedMs)
        spawned == [i \in 1..(cursor - g.nextLevelObjectIndex) |->
                      createGameObject(level.levelObjects[g.nextLevelObjectIndex + i])]
        player1 == PlayerMove(PlayerKeys(g.player, g.keys, deltaMs))
        all == g.gameObjects \o spawned
        moved == MoveAll(all, deltaMs)
        swept == removeDead(moved)
        hits == CollisionScan(swept, player1, 1)
        g1 == [g EXCEPT !.lastFrameTime = timestamp,
                        !.nextLevelObjectIndex = cursor,
                        !.spawns = IF "spawns" \in observe
                                        /\ Len(@) = Len(level.levelObjects)
                                   THEN CountSpawns(@, g.nextLevelObjectIndex, cursor)
                                   ELSE @,
                        !.player = player1,
                        !.gameObjects = swept]
        g2 == IF hits > 0 THEN handlePlayerHit(g1) ELSE g1
        done == LevelComplete(elapsedMs, level.duration, Len(swept))
        g3 == IF done THEN handleLevelFinished(g2, t) ELSE g2
        g4 == [g3 EXCEPT !.stepped = TRUE,
                         !.op = "loop",
                         !.lastStepAt = timestamp,
                         !.pausedMs = 0,
                         !.advanced = FALSE,
                         !.step =
                 [ran |-> TRUE, by |-> "loop", deltaMs |-> deltaMs,
                  sincePrev |-> timestamp - g.lastStepAt,
                  pausedBefore |-> g.pausedMs,
                  advancedBefore |-> g.advanced,
                  elapsedMs |-> elapsedMs,
                  duration |-> level.duration,
                  overlaps |-> Cardinality({i \in DOMAIN swept :
                                             hasCollision(swept[i], player1)}),
                  hits |-> hits, fieldAtCheck |-> Len(swept),
                  finished |-> done, statusAfter |-> g3.status,
                  offsets |->
                    Seen("offsets", [i \in DOMAIN level.levelObjects |->
                                       level.levelObjects[i].startTime]),
                  cursorAfter |-> cursor,
                  spawnsAfter |-> g1.spawns,
                  spawnedBefore |-> Seen("spawnedBefore", spawned),
                  spawnedChecked |->
                    Seen("spawnedChecked",
                         removeDead(SubSeq(moved, Len(g.gameObjects) + 1,
                                           Len(moved)))),
                  playerChecked |-> player1,
                  fieldMoved |-> Len(moved),
                  aliveOverlapsAfter |->
                    Seen("aliveOverlapsAfter",
                         Cardinality({i \in DOMAIN g3.gameObjects :
                                        /\ g3.gameObjects[i].isAlive
                                        /\ hasCollision(g3.gameObjects[i],
                                                        g3.player)}))]]
    IN IF (hits > 0 \/ done) /\ AudioThrows(g) THEN g4
       ELSE requestAnimationFrame(g4, "loop")

\* start that keeps the objects of the previous run in the field
startKeepsField(g, t, ls) ==
  IF g.status = "RUNNING" \/ AudioThrows(g) THEN [g EXCEPT !.op = "start"]
  ELSE [loop([g EXCEPT !.levels = ls,
                       !.currentLevelIndex = 0,
                       !.isLevelPassed = FALSE,
                       !.status = "RUNNING",
                       !.levelStartTime = t,
                       !.lastFrameTime = t,
                       !.nextLevelObjectIndex = 0,
                       !.spawns = NoSpawns(ls[1]),
                       !.finishedCalls = 0,
                       !.gameOverHidden = TRUE,
                       !.levelPassedHidden = TRUE],
             t, t) EXCEPT !.step.by = "start", !.op = "start"]

\* Game.start
start(g, t, ls) ==
  IF g.status = "RUNNING" \/ AudioThrows(g) THEN [g EXCEPT !.op = "start"]
  ELSE [loop([g EXCEPT !.levels = ls,
                       !.currentLevelIndex = 0,
                       !.isLevelPassed = FALSE,
                       !.status = "RUNNING",
                       !.gameObjects = <<>>,
                       !.levelStartTime = t,
                       !.lastFrameTime = t,
                       !.nextLevelObjectIndex = 0,
                       !.spawns = NoSpawns(ls[1]),
                       !.finishedCalls = 0,
                       !.gameOverHidden = TRUE,
                       !.levelPassedHidden = TRUE],
             t, t) EXCEPT !.step.by = "start", !.op = "start"]

\* Game.pause
pause(g) ==
  IF g.status # "RUNNING" THEN [g EXCEPT !.op = "pause"]
  ELSE [g EXCEPT !.status = "PAUSED", !.op = "pause"]

\* resume that starts the level clock again
resumeRestartsLevelClock(g, t) ==
  IF g.status # "PAUSED" THEN [g EXCEPT !.op = "resume"]
  ELSE [loop([g EXCEPT !.status = "RUNNING", !.lastFrameTime = t,
                       !.levelStartTime = t], t, t)
          EXCEPT !.step.by = "resume", !.op = "resume"]

\* resume that keeps the delta-time baseline of the last step before the pause
resumeKeepsBaseline(g, t) ==
  IF g.status # "PAUSED" THEN [g EXCEPT !.op = "resume"]
  ELSE [loop([g EXCEPT !.status = "RUNNING"], t, t)
          EXCEPT !.step.by = "resume", !.op = "resume"]

\* Game.resume
resume(g, t) ==
  IF g.status # "PAUSED" THEN [g EXCEPT !.op = "resume"]
  ELSE [loop([g EXCEPT !.status = "RUNNING", !.lastFrameTime = t], t, t)
          EXCEPT !.step.by = "resume", !.op = "resume"]

\* stop that sets the spawn cursor back
stopResetsCursor(g) ==
  cancelAnimationFrame([g EXCEPT !.status = "STOPPED",
                                 !.op = "stop",
                                 !.isLevelPassed = FALSE,
                                 !.gameOverHidden = TRUE,
                                 !.levelPassedHidden = TRUE,
                                 !.nextLevelObjectIndex = 0,
                                 !.gameObjects = <<>>])

\* Game.stop
stop(g) ==
  cancelAnimationFrame([g EXCEPT !.status = "STOPPED",
                                 !.op = "stop",
                                 !.isLevelPassed = FALSE,
                                 !.gameOverHidden = TRUE,
                                 !.levelPassedHidden = TRUE,
                                 !.gameObjects = <<>>])

\* ------------------------------------------------------------------ actions
Idle == frameQueue = <<>>

\* A frame can still follow.  What a user event does is seen by the program
\* only in a later callback or handler, so events are taken while one can run.
ClockRuns == \E d \in FrameDeltas : now + d <= MaxClock

\* the page of SimpleGame before its script has run
NoSimpleGame == [loaded |-> FALSE]

BootOf(n) ==
  /\ now = 0
  /\ status = "IDLE"
  /\ isLevelPassed = FALSE
  /\ currentLevelIndex = 0
  /\ nextLevelObjectIndex = 0
  /\ levelStartTime = 0
  /\ lastFrameTime = 0
  /\ levelPassedStartTime = 0
  /\ levels \in Programs[n]
  /\ gameObjects = <<>>
  /\ player = [x |-> FieldWidth \div 2, y |-> FieldHeight - PlayerHeight - PlayerBottomGap]
  /\ keys = {}
  /\ gameOverHidden = TRUE
  /\ levelPassedHidden = TRUE
  /\ pending = <<>>
  /\ frameQueue = <<>>
  /\ step = NoStep
  /\ frameSteps = 0
  /\ finishedCalls = 0
  /\ startLog = NoStart
  /\ advanceLog = NoAdvance
  /\ spawns = <<>>
  /\ changes = NoChanges
  /\ lastStepAt = 0
  /\ pausedMs = 0
  /\ advanced = FALSE
  /\ simple = NoSimpleGame

Boot == BootOf(NumLevels)

NoProbe == [applied |-> FALSE]

Init == Boot /\ observe = ObserveOutcome /\ audioOk = TRUE /\ probe = NoProbe

InitTiming == Boot /\ observe = ObserveTiming /\ audioOk = TRUE /\ probe = NoProbe

InitStart == Boot /\ observe = ObserveStart /\ audioOk = TRUE /\ probe = NoProbe

InitFrames == Boot /\ observe = ObserveFrames /\ audioOk = TRUE /\ probe = NoProbe

\* a program long enough for two advances after the first level
InitAdvance ==
  /\ BootOf(NumLevels + 1)
  /\ observe = ObserveAdvance /\ audioOk = TRUE /\ probe = NoProbe

\* the page may be unable to create an AudioContext
InitAudio ==
  /\ Boot
  /\ observe = ObserveOutcome \cup ObserveStart
  /\ audioOk \in BOOLEAN /\ probe = NoProbe

\* a click on Start, Start (welcome) or Play Again; the auto-start timer
Start ==
  /\ Idle
  /\ ClockRuns
  /\ Len(pending) < MaxCallbacks
  /\ \E ls \in resetLevels : Commit(start(G, now, ls))
  /\ startLog' =
       IF "startLog" \notin observe THEN startLog
       ELSE IF status = "RUNNING"
       THEN [startLog EXCEPT !.quiet = @ /\ program' = program]
       ELSE [startLog EXCEPT !.ran = TRUE,
                             !.index = currentLevelIndex',
                             !.cursor = nextLevelObjectIndex',
                             !.field = gameObjects',
                             !.flag = isLevelPassed',
                             !.status = status']
  /\ advanceLog' = IF status = "RUNNING" THEN advanceLog ELSE NoAdvance
  /\ UNCHANGED <<now, frameSteps>>

Pause ==
  /\ Idle
  /\ ClockRuns
  /\ Commit(pause(G))
  /\ UNCHANGED <<now, frameSteps, startLog, advanceLog>>

Resume ==
  /\ Idle
  /\ ClockRuns
  /\ Len(pending) < MaxCallbacks
  /\ Commit(resume(G, now))
  /\ UNCHANGED <<now, frameSteps, startLog, advanceLog>>

Stop ==
  /\ Idle
  /\ ClockRuns
  /\ Commit(stop(G))
  /\ UNCHANGED <<now, frameSteps, startLog, advanceLog>>

\* a click on Next Level; the listener calls advanceToNextLevel whenever the
\* click arrives, whatever the status
NextLevel ==
  /\ Idle
  /\ ClockRuns
  /\ Len(pending) < MaxCallbacks
  /\ Commit(advanceToNextLevel(G, now))
  /\ advanceLog' =
       IF /\ "advance" \in observe
          /\ status = "STOPPED" /\ isLevelPassed
          /\ currentLevelIndex < Len(levels) - 1
       THEN [manual |-> TRUE,
             exact |-> /\ currentLevelIndex' = currentLevelIndex + 1
                       /\ status' = "RUNNING"
                       /\ gameObjects' = <<>>
                       /\ nextLevelObjectIndex' = 0,
             again |-> FALSE]
       ELSE advanceLog
  /\ UNCHANGED <<now, frameSteps, startLog>>

\* pointerdown / pointermove: handlePointer sets the location, unclamped
Pointer ==
  /\ Idle
  /\ ClockRuns
  /\ \E pt \in PointerPoints :
       Commit([G EXCEPT !.player = [x |-> pt[1], y |-> pt[2]],
                        !.op = "handlePointer"])
  /\ UNCHANGED <<now, frameSteps, startLog, advanceLog>>

KeyDown ==
  /\ Idle
  /\ ClockRuns
  /\ \E k \in KeyNames \ keys : Commit([G EXCEPT !.keys = @ \cup {k}, !.op = "keydown"])
  /\ UNCHANGED <<now, frameSteps, startLog, advanceLog>>

KeyUp ==
  /\ Idle
  /\ ClockRuns
  /\ \E k \in keys : Commit([G EXCEPT !.keys = @ \ {k}, !.op = "keyup"])
  /\ UNCHANGED <<now, frameSteps, startLog, advanceLog>>

\* The display delivers the next frame: its callbacks are those pending now.
\* With no callback pending and the game not paused nothing reads the time
\* that passes (start and advanceToNextLevel re-anchor every timestamp), so
\* the clock is advanced only when a callback is pending or the game is paused.
Frame ==
  /\ Idle
  /\ pending # <<>> \/ status = "PAUSED"
  /\ \E d \in FrameDeltas :
       /\ now + d <= MaxClock
       /\ now' = now + d
       /\ Commit([G EXCEPT !.frameQueue = pending, !.pending = <<>>,
                           !.pausedMs = IF status = "PAUSED" THEN @ + d ELSE @])
  /\ frameSteps' = 0
  /\ UNCHANGED <<startLog, advanceLog>>

\* The first frame after the page was hidden.  A browser runs no animation
\* frame callback of a hidden page, and loop takes its dt from the timestamp
\* as it comes.
FrameAfterHidden ==
  /\ Idle
  /\ pending # <<>>
  /\ \E d \in HiddenDeltas :
       /\ now + d <= MaxClock
       /\ now' = now + d
       /\ Commit([G EXCEPT !.frameQueue = pending, !.pending = <<>>,
                           !.pausedMs = IF status = "PAUSED" THEN @ + d ELSE @])
  /\ frameSteps' = 0
  /\ UNCHANGED <<startLog, advanceLog>>

\* the frame runs its next callback, Game.loop
FrameLoop ==
  /\ frameQueue # <<>>
  /\ Head(frameQueue).fn = "loop"
  /\ Commit(loop([G EXCEPT !.frameQueue = Tail(@)], now, now))
  /\ frameSteps' = IF "frameSteps" \in observe /\ status = "RUNNING"
                    THEN frameSteps + 1 ELSE frameSteps
  /\ advanceLog' = IF finishedCalls' > finishedCalls THEN NoAdvance ELSE advanceLog
  /\ UNCHANGED <<now, startLog>>

\* the frame runs its next callback, Game.levelPassedLoop
FrameLevelPassedLoop ==
  /\ frameQueue # <<>>
  /\ Head(frameQueue).fn = "levelPassedLoop"
  /\ Commit(levelPassedLoop([G EXCEPT !.frameQueue = Tail(@)], now, now))
  /\ advanceLog' =
       IF advanceLog.manual /\ currentLevelIndex' # currentLevelIndex
       THEN [advanceLog EXCEPT !.again = TRUE]
       ELSE advanceLog
  /\ UNCHANGED <<now, frameSteps, startLog>>

\* play with the buttons and the pointer
Next ==
  \/ Start
  \/ Pause
  \/ Resume
  \/ Stop
  \/ NextLevel
  \/ Pointer
  \/ Frame
  \/ FrameLoop
  \/ FrameLevelPassedLoop

Spec == Init /\ [][Next]_vars

\* the phases of a simulation step
InitStep == Boot /\ observe = ObserveStep /\ audioOk = TRUE /\ probe = NoProbe

SpecStep == InitStep /\ [][Next]_vars

\* the steps of a game whose page can be hidden for a while
NextHidden ==
  \/ Next
  \/ FrameAfterHidden

SpecHidden == InitStep /\ [][NextHidden]_vars

\* which handler lowers the cursor, moves the level index, changes the field
InitChanges ==
  Boot /\ observe = ObserveChanges /\ audioOk = TRUE /\ probe = NoProbe

SpecChanges == InitChanges /\ [][Next]_vars

\* what start() leaves behind
SpecStart == InitStart /\ [][Next]_vars

\* the simulation steps of each frame
SpecFrames == InitFrames /\ [][Next]_vars

\* The timing of the steps: the buttons and the frames.  The paddle stays where
\* the constructor put it; no step reads it to compute its dt.
NextTiming ==
  \/ Start
  \/ Pause
  \/ Resume
  \/ Stop
  \/ NextLevel
  \/ Frame
  \/ FrameLoop
  \/ FrameLevelPassedLoop

SpecTiming == InitTiming /\ [][NextTiming]_vars

\* the level clock across pauses
InitPause == Boot /\ observe = ObservePause /\ audioOk = TRUE /\ probe = NoProbe

SpecPause == InitPause /\ [][NextTiming]_vars

\* Advancing through the levels: Start, Next Level and the frames.
NextAdvance ==
  \/ Start
  \/ NextLevel
  \/ Frame
  \/ FrameLoop
  \/ FrameLevelPassedLoop

SpecAdvance == InitAdvance /\ [][NextAdvance]_vars

\* An undisturbed game: Start and the frames, no pause, no stop, no Next
\* Level, and the paddle stays where the constructor put it, beside the
\* objects.  Start does nothing while the game is RUNNING.
\* Frames keep being delivered: a frame that can come does come, and a
\* callback of a delivered frame runs.
InitLive == Boot /\ observe = {} /\ audioOk = TRUE /\ probe = NoProbe

\* the callback at the head of the delivered frame's list is fn
CallbackIsNext(fn) == frameQueue # <<>> /\ Head(frameQueue).fn = fn

\* Weak fairness of the two callbacks is written out, with the condition
\* under which each can run as a state predicate: a callback that runs always
\* leaves the list, so it never stutters.
NextLive ==
  \/ Start
  \/ Frame
  \/ FrameLoop
  \/ FrameLevelPassedLoop

SpecLive ==
  /\ InitLive
  /\ [][NextLive]_vars
  /\ WF_vars(Frame)
  /\ []<>(~CallbackIsNext("loop")) \/ []<><<FrameLoop>>_vars
  /\ []<>(~CallbackIsNext("levelPassedLoop"))
       \/ []<><<FrameLevelPassedLoop>>_vars

\* play with the keyboard as well
NextKeys ==
  \/ Next
  \/ KeyDown
  \/ KeyUp

SpecKeys == Init /\ [][NextKeys]_vars

\* play on a page that may be unable to create an AudioContext
SpecAudio == InitAudio /\ [][Next]_vars

\* ===================================================== functions on their own
\* A function of the game applied outside a game: the game stays as the
\* constructor left it, probe holds the input drawn and the result.
GameUntouched ==
  UNCHANGED <<now, status, isLevelPassed, currentLevelIndex,
              nextLevelObjectIndex, levelStartTime, lastFrameTime,
              levelPassedStartTime, levels, gameObjects, player, keys,
              gameOverHidden, levelPassedHidden, pending, frameQueue, step,
              frameSteps, finishedCalls, startLog, advanceLog, spawns, changes, lastStepAt,
              pausedMs, advanced, observe, audioOk, simple>>

InitGame == Boot /\ observe = {} /\ audioOk = TRUE

\* ---- BaseFallingObject.move
\* objects as createGameObject builds them, at heights up to the margin, with
\* speeds and frame intervals whose products are whole pixels
MoveYSamples == {0 - 100, 300, 600, 690}
MoveSpeedSamples == {100, 200}
MoveDeltas == {0, 10, 50, 500, 2500}

InitObjectMove ==
  /\ InitGame
  /\ \E y \in MoveYSamples, v \in MoveSpeedSamples :
       LET o == createGameObject([x |-> 100, y |-> y, speed |-> v, size |-> 40])
       IN probe = [applied |-> FALSE, before |-> o, after |-> o]

\* one more call of move on the object
ApplyObjectMove ==
  /\ probe.after.y <= MaxProbeY
  /\ \E d \in MoveDeltas :
       probe' = [applied |-> TRUE, before |-> probe.after,
                 after |-> ObjectMove(probe.after, d)]
  /\ GameUntouched

SpecObjectMove == InitObjectMove /\ [][ApplyObjectMove]_vars

\* ---- Player.move
\* paddles and fields of even sizes (their halves are whole pixels), fields
\* smaller than the paddle included; positions on, next to and far from the
\* clamp's limits
PaddleWidthSamples == {110, 20}
PaddleHeightSamples == {18}
FieldWidthSamples == {800, 110, 100}
FieldHeightSamples == {600, 18, 10}
PaddleXSamples == {0 - 20, 0, 54, 55, 56, 400, 744, 745, 746, 900}
PaddleYSamples == {0 - 5, 8, 9, 10, 300, 590, 591, 592, 700}

InitPlayerMove ==
  /\ InitGame
  /\ \E x \in PaddleXSamples, y \in PaddleYSamples,
        w \in PaddleWidthSamples, h \in PaddleHeightSamples,
        fw \in FieldWidthSamples, fh \in FieldHeightSamples :
       probe = [applied |-> FALSE, width |-> w, height |-> h,
                fieldWidth |-> fw, fieldHeight |-> fh,
                before |-> [x |-> x, y |-> y], after |-> [x |-> x, y |-> y]]

\* one more call of move on the paddle
ApplyPlayerMove ==
  /\ probe' = [probe EXCEPT
                 !.applied = TRUE,
                 !.before = probe.after,
                 !.after = PlayerMoveIn(probe.after, probe.width, probe.height,
                                        probe.fieldWidth, probe.fieldHeight)]
  /\ GameUntouched

SpecPlayerMove == InitPlayerMove /\ [][ApplyPlayerMove]_vars

\* ---- boundsIntersect
\* boxes apart, touching along an edge or at a corner, overlapping, nested and
\* equal; sizes 0 included
BoxCornerSamples == {0, 5, 10}
BoxSizeSamples == {0, 5, 10}
BoxSamples ==
  [x : BoxCornerSamples, y : BoxCornerSamples,
   width : BoxSizeSamples, height : BoxSizeSamples]

InitBounds ==
  /\ InitGame
  /\ \E a \in BoxSamples, b \in BoxSamples :
       probe = [applied |-> FALSE, a |-> a, b |-> b, ab |-> FALSE, ba |-> FALSE]

\* boundsIntersect called on the two boxes, in both orders
ApplyBoundsIntersect ==
  /\ ~probe.applied
  /\ probe' = [probe EXCEPT !.applied = TRUE,
                            !.ab = boundsIntersect(probe.a, probe.b),
                            !.ba = boundsIntersect(probe.b, probe.a)]
  /\ GameUntouched

SpecBounds == InitBounds /\ [][ApplyBoundsIntersect]_vars

\* ---- generateLevel
\* durations from 500 ms up and difficulties in hundredths, among them the
\* first level of the game (25000 ms, 0.7)
DurationSamples == {500, 1600, 2000, 3000, 25000}
DifficultySamples == {70, 85, 140}

InitGenerate ==
  /\ InitGame
  /\ \E d \in DurationSamples, k \in DifficultySamples :
       probe = [applied |-> FALSE, built |-> FALSE, durationMs |-> d,
                difficulty |-> k, count |-> 0, levelObjects |-> <<>>]

\* the first two lines of generateLevel: the number of objects
ApplyObjectsCount ==
  /\ probe' = [probe EXCEPT
                 !.applied = TRUE,
                 !.count = objectsCount(probe.durationMs, probe.difficulty)]
  /\ GameUntouched

\* generateLevel called on the duration and difficulty
ApplyGenerateLevel ==
  /\ objectsCount(probe.durationMs, probe.difficulty) <= MaxLevelObjects
  /\ \E lv \in generateLevel(probe.durationMs, probe.difficulty) :
       probe' = [probe EXCEPT !.built = TRUE,
                              !.levelObjects = lv.levelObjects]
  /\ GameUntouched

NextGenerate ==
  \/ ApplyObjectsCount
  \/ ApplyGenerateLevel

SpecGenerate == InitGenerate /\ [][NextGenerate]_vars

\* ---- Game.resetLevels: the difficulty of each level
InitDifficulty ==
  /\ InitGame
  /\ \E i \in 0..(LevelCount - 2) :
       probe = [applied |-> FALSE, index |-> i, here |-> 0, next |-> 0]

\* the difficulties resetLevels passes to generateLevel for level index and
\* for the level after it
ApplyLevelDifficulty ==
  /\ probe' = [probe EXCEPT !.applied = TRUE,
                            !.here = LevelDifficulty(probe.index),
                            !.next = LevelDifficulty(probe.index + 1)]
  /\ GameUntouched

SpecDifficulty == InitDifficulty /\ [][ApplyLevelDifficulty]_vars

\* ================================================================== claims
Callbacks == pending \o frameQueue
LastLevelIndex == Len(levels) - 1

\* start() runs and takes effect (it anchors the level at now, at index 0)
StartRuns ==
  /\ status # "RUNNING"
  /\ levelStartTime' = now /\ currentLevelIndex' = 0
  /\ Start

\* resume() runs and takes effect (it re-anchors lastFrameTime only)
ResumeRuns ==
  /\ status = "PAUSED"
  /\ lastFrameTime' = now /\ levelStartTime' = levelStartTime
  /\ Resume

\* this transition runs a frame callback
CallbackRuns == frameQueue # <<>> /\ (FrameLoop \/ FrameLevelPassedLoop)

\* objects of the field whose bounds intersect the player's bounds
Overlapping == {i \in DOMAIN gameObjects : hasCollision(gameObjects[i], player)}

\* the level-passed transient: STOPPED with the level-passed flag set
LevelPassedTransient == status = "STOPPED" /\ isLevelPassed

\* STOPPED by handlePlayerHit: the game-over overlay is shown only by it, and
\* start and stop hide it
CollisionStopped == status = "STOPPED" /\ ~isLevelPassed /\ ~gameOverHidden

\* STOPPED by stop(): stop hides both overlays and clears the flag
StoppedByStop == status = "STOPPED" /\ ~isLevelPassed /\ gameOverHidden

\* ---- C1
\* C1 (as claimed): after the level-completion transition on a level that is
\* not the last, and until 5000 ms have passed since (with no start, stop or
\* manual advance, each of which clears the level-passed flag), a
\* levelPassedLoop callback is always scheduled.
C1_CelebrationKeepsRunning ==
  (/\ LevelPassedTransient
   /\ currentLevelIndex < LastLevelIndex
   /\ now - levelPassedStartTime < LevelPassedMs)
  => \E i \in DOMAIN Callbacks : Callbacks[i].fn = "levelPassedLoop"

\* ---- C2
\* C2: in every executed simulation step, if at least one object of the field
\* (after movement and sweep) intersects the player, the step ends with status
\* STOPPED and has called handlePlayerHit exactly once.
C2_OneHitPerStep ==
  (step.ran /\ step.overlaps >= 1) =>
     (step.statusAfter = "STOPPED" /\ step.hits = 1)

\* a step has just stopped the game on a collision with two objects at once
C2_Witness ==
  /\ CollisionStopped
  /\ step.ran /\ step.hits = 1 /\ step.overlaps >= 2
  /\ Cardinality(Overlapping) >= 2

\* ---- C3
\* C3 (as claimed): once STOPPED by a collision, or FINISHED, no transition
\* other than start() makes the status RUNNING or changes currentLevelIndex.
C3_TerminalUntilStart ==
  [][((CollisionStopped \/ status = "FINISHED") /\ ~StartRuns) =>
       (status' # "RUNNING" /\ currentLevelIndex' = currentLevelIndex)]_vars

\* ---- C4
\* C4 (as claimed): while the game is STOPPED by stop(), no frame callback
\* performs a simulation step, advances the level or changes the status, and
\* the field stays empty.
C4_NothingRunsAfterStop ==
  [][(StoppedByStop /\ CallbackRuns) =>
       (/\ StoppedByStop'
        /\ gameObjects' = <<>>
        /\ currentLevelIndex' = currentLevelIndex
        /\ step' = step)]_vars

\* ---- C5
\* C5 (as claimed): at most one loop callback finds status RUNNING (and runs a
\* simulation step) in any one display frame.
C5_OneStepPerFrame == frameSteps <= 1

\* ---- C6
\* C6: handleLevelFinished is invoked at most once between two (re)starts of a
\* level (start or advanceToNextLevel), although elapsed >= duration and the
\* empty field persist over the following frames.
C6_LevelPassedOnce == finishedCalls <= 1

\* the level was passed, and a later frame has been delivered since
C6_Witness ==
  /\ finishedCalls = 1
  /\ LevelPassedTransient
  /\ now > levelPassedStartTime
  /\ now - levelStartTime >= levels[currentLevelIndex + 1].duration
  /\ gameObjects = <<>>

\* ---- C7
\* C7: a simulation step enters level-passed handling exactly when, at its
\* completion check, elapsed level time >= level.duration and the swept field
\* is empty; and the level-passed flag is set, or handleLevelFinished counted,
\* only when the most recent simulation step entered it.
C7_LevelPassedEntry ==
  /\ step.ran =>
       (step.finished <=>
          (step.elapsedMs >= step.duration /\ step.fieldAtCheck = 0))
  /\ (isLevelPassed \/ finishedCalls > 0) => (step.ran /\ step.finished)

\* a step has just entered level-passed handling
C7_Witness ==
  /\ step.ran /\ step.finished
  /\ step.elapsedMs >= step.duration /\ step.fieldAtCheck = 0
  /\ isLevelPassed
  /\ levelPassedStartTime = now

\* ---- C8
\* C8 (as claimed): every status change is a listed one, the level-passed
\* transient going back to RUNNING, or a restart from STOPPED or FINISHED.
\* start() and resume() assign RUNNING and run a step, which may assign again.
C8_OnlyListedTransitions ==
  [][LET Listed(a, b) ==
           \/ a = "IDLE" /\ b = "RUNNING"
           \/ a = "RUNNING" /\ b = "PAUSED"
           \/ a = "PAUSED" /\ b = "RUNNING"
           \/ a = "RUNNING" /\ b = "STOPPED"
           \/ a = "RUNNING" /\ b = "FINISHED"
     IN status' # status =>
          \/ Listed(status, status')
          \/ LevelPassedTransient /\ status' = "RUNNING"
          \/ status \in {"STOPPED", "FINISHED"} /\ status' = "RUNNING" /\ StartRuns
          \/ /\ StartRuns \/ ResumeRuns
             /\ Listed(status, "RUNNING") \/ status \in {"STOPPED", "FINISHED"}
             /\ Listed("RUNNING", status')]_vars

C10_PausedIsFrozen ==
  [][(status = "PAUSED" /\ ~(ResumeRuns \/ StartRuns \/ Stop \/ NextLevel)) =>
       UNCHANGED <<gameObjects, nextLevelObjectIndex, currentLevelIndex>>]_vars

\* ---- C11
\* C11 (as claimed): the step run by resume() has dt = 0, and every step run
\* by a frame callback has dt equal to the time since the previous executed
\* step.
C11_DtSincePreviousStep ==
  step.ran =>
    /\ step.by = "resume" => step.deltaMs = 0
    /\ step.by = "loop" => step.deltaMs = step.sincePrev

\* C11 (amended): the dt of a step never includes time spent PAUSED: it is
\* not negative and fits into the time since the previous executed step less
\* the time spent PAUSED since then; the step run by resume() has dt = 0; a
\* step run by a frame callback has dt equal to the time since the previous
\* executed step unless advanceToNextLevel took effect in between.
C11_DtExcludesPause ==
  step.ran =>
    /\ 0 <= step.deltaMs
    /\ step.deltaMs <= step.sincePrev - step.pausedBefore
    /\ step.by = "resume" => step.deltaMs = 0
    /\ (step.by = "loop" /\ ~step.advancedBefore) => step.deltaMs = step.sincePrev

\* resume() has just run its step after a pause that lasted, and an earlier
\* step of the run had a positive dt
C11_Witness ==
  /\ step.ran /\ step.by = "resume"
  /\ step.pausedBefore > 0
  /\ step.deltaMs = 0
  /\ status = "RUNNING"
  /\ lastFrameTime = now

\* ---- C12
\* the level pass of this instant
LevelJustPassed ==
  /\ step.ran /\ step.finished
  /\ isLevelPassed /\ levelPassedStartTime = now

\* C12 (as claimed): with or without working audio, a start() called outside
\* RUNNING leaves the game RUNNING, a step that finds a collision leaves it
\* STOPPED, and a level pass shows the level-passed overlay and, on a level
\* that has a successor, has the celebration callback (which advances the
\* level) requested.
C12_AudioFailureIsHarmless ==
  /\ startLog.ran => startLog.status = "RUNNING"
  /\ (step.ran /\ step.hits > 0) => step.statusAfter = "STOPPED"
  /\ LevelJustPassed =>
       /\ ~levelPassedHidden
       /\ currentLevelIndex < LastLevelIndex =>
            \E i \in DOMAIN Callbacks : Callbacks[i].fn = "levelPassedLoop"

\* ---- C13
\* C13 (as claimed): a Next Level click during the level-passed handling of a
\* level that has a successor advances exactly one level (index + 1, RUNNING,
\* empty field, cursor 0), and the celebration callback still pending from
\* that level pass does not advance the level again afterwards.
C13_ManualAdvanceOnce ==
  advanceLog.manual => advanceLog.exact /\ ~advanceLog.again

\* ---- C14
\* C14: move() leaves an object alive exactly when it was alive before and its
\* y after the integration is not greater than field.height + 100 (an object
\* at exactly field.height + 100 stays alive); a dead object stays dead.
C14_DeadBelowMargin ==
  probe.applied =>
    /\ probe.after.isAlive <=>
         (probe.before.isAlive /\ ~(probe.after.y > FieldHeight + 100))
    /\ ~probe.before.isAlive => ~probe.after.isAlive

\* move() has left a live object at exactly field.height + 100
C14_Witness ==
  /\ probe.applied
  /\ probe.before.isAlive /\ probe.before.y < FieldHeight + 100
  /\ probe.after.y = FieldHeight + 100
  /\ probe.after.isAlive

\* ---- C15
\* the paddle centred at p lies inside the field
PaddleInside(p, width, height, fieldWidth, fieldHeight) ==
  /\ width \div 2 <= p.x /\ p.x <= fieldWidth - width \div 2
  /\ height \div 2 <= p.y /\ p.y <= fieldHeight - height \div 2

\* C15: in a field at least as large as the paddle, Player.move leaves the
\* centre with width/2 <= x <= field.width - width/2 and
\* height/2 <= y <= field.height - height/2, whatever the position before;
\* x = 0 with width 110 in a field 800 wide becomes 55; a position already
\* inside these limits is unchanged.
C15_ClampKeepsPaddleInside ==
  probe.applied =>
    /\ (probe.fieldWidth >= probe.width /\ probe.fieldHeight >= probe.height) =>
         PaddleInside(probe.after, probe.width, probe.height,
                      probe.fieldWidth, probe.fieldHeight)
    /\ (probe.before.x = 0 /\ probe.width = 110 /\ probe.fieldWidth = 800) =>
         probe.after.x = 55
    /\ PaddleInside(probe.before, probe.width, probe.height,
                    probe.fieldWidth, probe.fieldHeight) =>
         probe.after = probe.before

\* move() has clamped x = 0 of the paddle 110 wide in the field 800 wide
C15_Witness ==
  /\ probe.applied
  /\ probe.before.x = 0 /\ probe.width = 110 /\ probe.fieldWidth = 800
  /\ probe.fieldHeight >= probe.height
  /\ probe.after.x = 55

\* ---- C16
\* C16 (as claimed): whenever a handler or a step has completed, in any
\* status, the whole paddle box lies inside the field.
C16_PaddleBoxInsideField ==
  LET b == PlayerBounds(player)
  IN /\ 0 <= b.x /\ b.x + b.width <= FieldWidth
     /\ 0 <= b.y /\ b.y + b.height <= FieldHeight

\* ---- C17
\* an edge of one box lies on the facing edge of the other
Touching(a, b) ==
  \/ a.x + a.width = b.x
  \/ b.x + b.width = a.x
  \/ a.y + a.height = b.y
  \/ b.y + b.height = a.y

\* the boxes share a region of positive area
OverlapArea(a, b) ==
  LET Max(m, n) == IF m > n THEN m ELSE n
      Min(m, n) == IF m < n THEN m ELSE n
  IN /\ Max(a.x, b.x) < Min(a.x + a.width, b.x + b.width)
     /\ Max(a.y, b.y) < Min(a.y + a.height, b.y + b.height)

\* C17: boundsIntersect is strict on all four edges: boxes of which one ends
\* where the other begins, along an edge or at a corner, do not intersect, and
\* boxes of positive size intersect exactly when they share a region of
\* positive area; {0,0,10,10} and {5,5,10,10} intersect, {0,0,10,10} and
\* {10,10,10,10} do not.
C17_TouchingIsNotIntersecting ==
  LET box == [x |-> 0, y |-> 0, width |-> 10, height |-> 10]
  IN probe.applied =>
       /\ Touching(probe.a, probe.b) => ~probe.ab
       /\ (/\ probe.a.width > 0 /\ probe.a.height > 0
           /\ probe.b.width > 0 /\ probe.b.height > 0) =>
            (probe.ab <=> OverlapArea(probe.a, probe.b))
       /\ (probe.a = box /\ probe.b = [box EXCEPT !.x = 5, !.y = 5]) => probe.ab
       /\ (probe.a = box /\ probe.b = [box EXCEPT !.x = 10, !.y = 10]) => ~probe.ab

\* boundsIntersect has answered no for {0,0,10,10} and {10,10,10,10}, which
\* touch at a corner
C17_Witness ==
  /\ probe.applied
  /\ probe.a = [x |-> 0, y |-> 0, width |-> 10, height |-> 10]
  /\ probe.b = [x |-> 10, y |-> 10, width |-> 10, height |-> 10]
  /\ ~probe.ab

\* ---- C18
\* C18: for boxes of non-negative width and height boundsIntersect(a, b) and
\* boundsIntersect(b, a) are equal.
C18_Symmetric ==
  (/\ probe.applied
   /\ probe.a.width >= 0 /\ probe.a.height >= 0
   /\ probe.b.width >= 0 /\ probe.b.height >= 0) =>
    probe.ab = probe.ba

\* boundsIntersect has answered yes in both orders for two different boxes,
\* one of them of width 0
C18_Witness ==
  /\ probe.applied
  /\ probe.a # probe.b
  /\ probe.a.width = 0 /\ probe.b.width > 0
  /\ probe.ab /\ probe.ba

\* ---- C19
\* C19: the levelObjects generateLevel returns are in non-decreasing order of
\* startTime.
C19_SortedByStartTime ==
  probe.built =>
    \A i, j \in DOMAIN probe.levelObjects :
      i < j => probe.levelObjects[i].startTime <= probe.levelObjects[j].startTime

\* generateLevel has returned objects of different start times, and two of
\* the same start time
C19_Witness ==
  /\ probe.built
  /\ Len(probe.levelObjects) >= 3
  /\ probe.levelObjects[1].startTime = probe.levelObjects[2].startTime
  /\ probe.levelObjects[2].startTime < probe.levelObjects[3].startTime

\* ---- C20
\* C20: generateLevel builds floor((durationMs / 1000) * difficulty * 1.5)
\* objects (difficulty is in hundredths here, so the product is
\* durationMs * difficulty * 15 / 1000000), never fewer than 0 for a duration
\* of at least 500 ms and a positive difficulty; 25000 ms at 0.7 gives 26.
C20_ObjectsCount ==
  LET product == probe.durationMs * probe.difficulty * 15
  IN /\ probe.applied =>
          /\ probe.count * 1000000 <= product
          /\ product < (probe.count + 1) * 1000000
          /\ (probe.durationMs >= 500 /\ probe.difficulty > 0) => probe.count >= 0
          /\ (probe.durationMs = 25000 /\ probe.difficulty = 70) => probe.count = 26
     /\ probe.built =>
          /\ Len(probe.levelObjects) * 1000000 <= product
          /\ product < (Len(probe.levelObjects) + 1) * 1000000

\* a level of 2000 ms at 1.4 has been generated with the 4 objects counted
\* for it (2 * 1.4 * 1.5 = 4.2)
C20_Witness ==
  /\ probe.built /\ probe.applied
  /\ probe.durationMs = 2000 /\ probe.difficulty = 140
  /\ probe.count = 4 /\ Len(probe.levelObjects) = 4

\* ---- C21
\* C21 (as claimed): of the 100 levels resetLevels builds, each level after
\* the first has a difficulty not lower than the level before it.
C21_DifficultyNeverDrops ==
  probe.applied => probe.next >= probe.here

\* ---- C22
\* C22: after the spawn dispatch of every simulation step, every LevelObject
\* of the current level below the cursor has an offset <= the elapsed level
\* time and has been instantiated exactly once in this level run, and every
\* LevelObject from the cursor on has an offset > the elapsed level time and
\* has not been instantiated.
C22_SpawnedAreTheDue ==
  step.ran =>
    /\ step.cursorAfter \in 0..Len(step.offsets)
    /\ Len(step.spawnsAfter) = Len(step.offsets)
    /\ \A i \in DOMAIN step.offsets :
         IF i <= step.cursorAfter
         THEN step.offsets[i] <= step.elapsedMs /\ step.spawnsAfter[i] = 1
         ELSE step.offsets[i] > step.elapsedMs /\ step.spawnsAfter[i] = 0

\* a step has dispatched the first of two LevelObjects and left the second,
\* which is not due yet
C22_Witness ==
  /\ step.ran
  /\ Len(step.offsets) = 2
  /\ step.cursorAfter = 1
  /\ step.offsets[1] <= step.elapsedMs /\ step.offsets[2] > step.elapsedMs
  /\ step.spawnsAfter = <<1, 0>>

\* ---- C23
\* C23: the spawn cursor never exceeds the number of LevelObjects of the
\* current level, and a handler that lowers it is start() or
\* advanceToNextLevel(): pause, resume, stop, the pointer handler, a frame
\* step and the level-passed sub-loop before its 5 s never lower it.
C23_CursorNeverGoesBack ==
  /\ nextLevelObjectIndex \in
       0..Len(levels[currentLevelIndex + 1].levelObjects)
  /\ changes.cursor \in {"none", "start", "advanceToNextLevel"}
  /\ changes.cursor = "advanceToNextLevel" => nextLevelObjectIndex = 0

\* advanceToNextLevel has set the cursor back to 0 from a level whose objects
\* had been dispatched
C23_Witness ==
  /\ changes.cursor = "advanceToNextLevel"
  /\ currentLevelIndex = 1 /\ status = "RUNNING"
  /\ nextLevelObjectIndex = 0

\* ---- C24
\* C24: in every step the objects instantiated by the spawn dispatch are
\* all in the collection the collision check scans, each advanced by
\* speed * dt from where it was created, and the player the check tests
\* against is clamped to the field.
C24_SpawnedAreChecked ==
  step.ran =>
    /\ Len(step.spawnedChecked) = Len(step.spawnedBefore)
    /\ \A i \in DOMAIN step.spawnedChecked :
         step.spawnedChecked[i] =
           [step.spawnedBefore[i] EXCEPT
              !.y = @ + (step.spawnedBefore[i].speed * step.deltaMs) \div 1000]
    /\ step.playerChecked.x \in
         (PlayerWidth \div 2)..(FieldWidth - PlayerWidth \div 2)
    /\ step.playerChecked.y \in
         (PlayerHeight \div 2)..(FieldHeight - PlayerHeight \div 2)

\* ---- C25
\* C25: the collision check of a step iterates the collection as the movement
\* phase left it, dead objects included: the sweep comes after the check.
C25_ScanSeesUnsweptField == step.ran => step.fieldAtCheck = step.fieldMoved

\* ---- C26
\* C26: a step that detects a collision marks the colliding object dead, so
\* after such a step no live object of the field overlaps the player.
C26_HitObjectIsMarkedDead == (step.ran /\ step.hits > 0) => step.aliveOverlapsAfter = 0

\* ---- C27
\* C27: a handler that runs no simulation step leaves the field's collection
\* of objects as it was; stop() and advanceToNextLevel() run none.
C27_FieldChangesOnlyInSteps ==
  changes.field \notin {"stop", "advanceToNextLevel"}

\* ---- C28
\* C28: the status is FINISHED only after a step whose completion check fired
\* on the last level; and after completion has fired on the last level the
\* status is FINISHED and no levelPassedLoop callback is scheduled, so nothing
\* celebrates or advances.
C28_FinishedIsLastLevelPassed ==
  /\ status = "FINISHED" =>
       /\ step.ran /\ step.finished /\ step.statusAfter = "FINISHED"
       /\ currentLevelIndex = Len(levels) - 1
  /\ (step.ran /\ step.finished /\ isLevelPassed
        /\ currentLevelIndex = Len(levels) - 1) =>
       /\ status = "FINISHED"
       /\ step.statusAfter = "FINISHED"
       /\ \A i \in DOMAIN pending : pending[i].fn # "levelPassedLoop"
       /\ \A i \in DOMAIN frameQueue : frameQueue[i].fn # "levelPassedLoop"

\* ---- C29
\* C29: every scheduled offset of the level a step plays lies in
\* [0, duration - 500], and a step whose completion check fires has its spawn
\* cursor at the number of LevelObjects of the level: none is left unspawned.
C29_PassedMeansAllSpawned ==
  step.ran =>
    /\ step.duration >= SpawnTail
    /\ \A i \in DOMAIN step.offsets :
         step.offsets[i] \in 0..(step.duration - SpawnTail)
    /\ step.finished => step.cursorAfter = Len(step.offsets)

\* a level is passed whose last object was scheduled late, at 1000 ms
C29_Witness ==
  /\ step.ran /\ step.finished
  /\ Len(step.offsets) = 2
  /\ step.offsets[2] = 1000
  /\ step.cursorAfter = 2

\* ---- C30
\* C30: currentLevelIndex is always an index of levels; a handler that changes
\* it is advanceToNextLevel, by exactly +1, or start(), to 0; and
\* advanceToNextLevel called on the last level changes no field of the game
\* and requests no callback.
C30_IndexStaysInLevels ==
  /\ currentLevelIndex \in 0..(Len(levels) - 1)
  /\ changes.index \in {"none", "start", "advanceToNextLevel"}
  /\ changes.index = "start" => currentLevelIndex = 0
  /\ changes.index = "advanceToNextLevel" =>
       currentLevelIndex = changes.indexFrom + 1
  /\ changes.lastLevel \in {"none", "same"}

\* advanceToNextLevel has just been called on the last level, reached by an
\* earlier advance, and has left the game as it was
C30_Witness ==
  /\ changes.lastLevel = "same"
  /\ changes.index = "none"
  /\ currentLevelIndex = Len(levels) - 1
  /\ currentLevelIndex > 0

\* ---- C31
\* C31: the elapsed level time of a step is the time since levelStartTime,
\* which only start() and advanceToNextLevel() move, never pause() or
\* resume(): paused time counts.  The step resume() runs therefore leaves
\* below the cursor every LevelObject whose offset has passed, those that
\* fell into the pause included.
C31_PausedTimeCounts ==
  /\ changes.anchor \in {"none", "start", "advanceToNextLevel"}
  /\ step.ran =>
       /\ step.elapsedMs = now - levelStartTime
       /\ step.by = "resume" =>
            \A i \in DOMAIN step.offsets :
              step.offsets[i] <= step.elapsedMs => i <= step.cursorAfter

\* resume() has run its step after a pause during which an offset passed and
\* the level's duration was reached: the object is dispatched in this step
C31_Witness ==
  /\ step.ran /\ step.by = "resume"
  /\ step.pausedBefore > 0
  /\ step.elapsedMs >= step.duration
  /\ step.elapsedMs - step.sincePrev < step.duration
  /\ step.cursorAfter = Len(step.offsets)
  /\ \E i \in DOMAIN step.offsets :
       /\ step.offsets[i] > step.elapsedMs - step.sincePrev
       /\ step.offsets[i] <= step.elapsedMs

\* ------------------------------------------------------------- SimpleGame
\* The second entry point: class SimpleGame and the script that constructs
\* it.  Date.now() is in milliseconds; gameLoop's dt = (now - lastTime) / 1000
\* is kept in milliseconds and divided where it is used.
AutoStartDelay == 1000
SimplePlayerWidth == 80
SimplePlayerHeight == 20
SimpleObjectSize == 30
SimplePlayerSpeed == 300

\* Math.random() * 100 in spawnObject's speed
SimpleSpeedRandoms == {50}
\* Math.random() * (canvas.width - 30) + 15 in spawnObject: over the paddle's
\* first position and away from it
SimpleSpawnXs == {100, 400}
\* the x a mousemove or touchmove computes
SimplePointerXs == {100, 400}
\* the time between two frames
SimpleDeltas == {500, 1000}

\* everything but the page of SimpleGame
MainUntouched ==
  UNCHANGED <<now, status, isLevelPassed, currentLevelIndex,
              nextLevelObjectIndex, levelStartTime, lastFrameTime,
              levelPassedStartTime, levels, gameObjects, player, keys,
              gameOverHidden, levelPassedHidden, pending, frameQueue, step,
              frameSteps, finishedCalls, startLog, advanceLog, spawns, changes,
              lastStepAt, pausedMs, advanced, observe, audioOk, probe>>

\* new SimpleGame(canvas), the auto-start timer set, the click handler added
SimpleGameLoaded ==
  [loaded |-> TRUE,
   objects |-> <<>>,
   player |-> [x |-> FieldWidth \div 2, y |-> FieldHeight - 40,
               width |-> SimplePlayerWidth, height |-> SimplePlayerHeight,
               vx |-> 0],
   score |-> 0,
   level |-> 1,
   running |-> FALSE,
   lastTime |-> 0,
   spawnCounter |-> 0,
   dateNow |-> 0,          \* Date.now(), from the construction
   autoStart |-> TRUE,     \* the setTimeout callback has not run yet
   requested |-> 0,        \* gameLoop callbacks requested for the next frame
   callbacks |-> 0,        \* callbacks of the delivered frame still to run
   loopsInFrame |-> 0]     \* gameLoop bodies run as callbacks of this frame

collides(a, b) ==
  /\ a.x < b.x + b.width
  /\ a.x + a.width > b.x
  /\ a.y < b.y + b.height
  /\ a.y + a.height > b.y

SimpleClamp(x) ==
  IF x < 40 THEN 40 ELSE IF x > FieldWidth - 40 THEN FieldWidth - 40 ELSE x

spawnObject(s, rx, rs) ==
  [s EXCEPT !.objects =
     Append(@, [x |-> rx, y |-> 0 - 30, width |-> SimpleObjectSize,
                height |-> SimpleObjectSize,
                vy |-> 100 + s.level * 50 + rs, alive |-> TRUE])]

\* the for loop of gameLoop from object i on: move, mark, collide
RECURSIVE UpdateObjects(_, _, _)
UpdateObjects(s, i, dt) ==
  IF i > Len(s.objects) THEN s
  ELSE LET o0 == s.objects[i]
           o1 == [o0 EXCEPT !.y = @ + (o0.vy * dt) \div 1000]
           o2 == IF o1.y > FieldHeight THEN [o1 EXCEPT !.alive = FALSE] ELSE o1
           hit == collides(o2, s.player)
           score1 == IF hit THEN s.score + 10 * s.level ELSE s.score
           o3 == IF hit THEN [o2 EXCEPT !.alive = FALSE] ELSE o2
           level1 == IF hit /\ score1 % 100 = 0 THEN s.level + 1 ELSE s.level
       IN UpdateObjects([s EXCEPT !.objects[i] = o3, !.score = score1,
                                  !.level = level1], i + 1, dt)

\* whether this call of gameLoop spawns
SimpleSpawns(s) ==
  s.running /\ (s.spawnCounter + (s.dateNow - s.lastTime)) * s.level > 500

gameLoop(s, rx, rs) ==
  IF ~s.running THEN s
  ELSE LET dt == s.dateNow - s.lastTime
           s1 == [s EXCEPT !.lastTime = s.dateNow,
                           !.player.x = SimpleClamp(@ + (s.player.vx * dt) \div 1000),
                           !.spawnCounter = @ + dt]
           s2 == IF s1.spawnCounter * s1.level > 500
                 THEN [spawnObject(s1, rx, rs) EXCEPT !.spawnCounter = 0]
                 ELSE s1
           s3 == UpdateObjects(s2, 1, dt)
           s4 == [s3 EXCEPT !.objects = SelectSeq(@, LAMBDA o : o.alive)]
       IN [s4 EXCEPT !.requested = @ + 1]

SimpleStart(s, rx, rs) ==
  gameLoop([s EXCEPT !.running = TRUE, !.lastTime = s.dateNow], rx, rs)

SimpleStopped(s) == [s EXCEPT !.running = FALSE]

\* the random numbers a call of gameLoop on s draws: none unless it spawns
SimpleRandomXs(s) == IF SimpleSpawns(s) THEN SimpleSpawnXs ELSE {100}
SimpleRandomSpeeds(s) == SimpleSpeedRandoms

\* no frame is being delivered: the page runs timers and events
SimpleIdle == simple.loaded /\ simple.callbacks = 0

\* the script at the end of the file has run
SimpleLoad ==
  /\ ~simple.loaded
  /\ simple' = SimpleGameLoaded
  /\ MainUntouched

\* the setTimeout callback
SimpleAutoStart ==
  /\ SimpleIdle
  /\ simple.autoStart /\ simple.dateNow >= AutoStartDelay
  /\ simple.requested < MaxSimpleCallbacks
  /\ LET s == [simple EXCEPT !.autoStart = FALSE,
                             !.running = TRUE, !.lastTime = simple.dateNow]
     IN \E rx \in SimpleRandomXs(s), rs \in SimpleRandomSpeeds(s) :
          simple' = SimpleStart([simple EXCEPT !.autoStart = FALSE], rx, rs)
  /\ MainUntouched

\* the canvas click handler
SimpleClick ==
  /\ SimpleIdle
  /\ simple.requested < MaxSimpleCallbacks
  /\ LET s == [simple EXCEPT !.running = TRUE, !.lastTime = simple.dateNow]
     IN \E rx \in SimpleRandomXs(s), rs \in SimpleRandomSpeeds(s) :
          simple' = IF ~simple.running THEN SimpleStart(simple, rx, rs)
                    ELSE simple
  /\ MainUntouched

\* window.game.stop()
SimpleStop ==
  /\ SimpleIdle
  /\ simple' = SimpleStopped(simple)
  /\ MainUntouched

SimpleKeyDown ==
  /\ SimpleIdle
  /\ \E v \in {0 - SimplePlayerSpeed, SimplePlayerSpeed} :
       simple' = [simple EXCEPT !.player.vx = v]
  /\ MainUntouched

SimpleKeyUp ==
  /\ SimpleIdle
  /\ simple' = [simple EXCEPT !.player.vx = 0]
  /\ MainUntouched

\* mousemove and touchmove
SimplePointerMove ==
  /\ SimpleIdle
  /\ \E x \in SimplePointerXs :
       simple' = [simple EXCEPT !.player.x = SimpleClamp(x)]
  /\ MainUntouched

\* Time passes and the display delivers a frame: its callbacks are those
\* requested so far.  A timer that is due runs before the next frame.
SimpleFrame ==
  /\ SimpleIdle
  /\ ~(simple.autoStart /\ simple.dateNow >= AutoStartDelay)
  /\ \E d \in SimpleDeltas :
       /\ simple.dateNow + d <= SimpleMaxClock
       /\ simple' = [simple EXCEPT !.dateNow = @ + d,
                                   !.callbacks = simple.requested,
                                   !.requested = 0,
                                   !.loopsInFrame = 0]
  /\ MainUntouched

\* the next callback of the delivered frame: gameLoop
SimpleFrameGameLoop ==
  /\ simple.loaded /\ simple.callbacks > 0
  /\ LET s == [simple EXCEPT !.callbacks = @ - 1,
                             !.loopsInFrame = IF simple.running THEN @ + 1 ELSE @]
     IN \E rx \in SimpleRandomXs(simple), rs \in SimpleRandomSpeeds(simple) :
          simple' = gameLoop(s, rx, rs)
  /\ MainUntouched

NextSimple ==
  \/ SimpleLoad
  \/ SimpleAutoStart
  \/ SimpleClick
  \/ SimpleStop
  \/ SimpleKeyDown
  \/ SimpleKeyUp
  \/ SimplePointerMove
  \/ SimpleFrame
  \/ SimpleFrameGameLoop

InitSimple == Boot /\ observe = {} /\ audioOk = TRUE /\ probe = NoProbe

SpecSimple == InitSimple /\ [][NextSimple]_vars


\* ---- C32
\* the times at which a level can start early enough for the frames of its
\* objects' fall to come
EarlyLevelStarts ==
  {t \in 0..(MaxClock - FramesAhead) : \E d \in FrameDeltas : t % d = 0}

C33_OneGameLoopChain ==
  simple.loaded =>
    /\ simple.requested + simple.callbacks <= 1
    /\ simple.loopsInFrame <= 1
====
